---- MODULE Spec2Model ----
(***************************************************************************)
(* Model of the JXA execution utility (src/utils/jxa.ts):                  *)
(*   escapeForJXA   - escapes text for a double-quoted JavaScript literal  *)
(*   executeJXA     - runs a script through `osascript -l JavaScript`      *)
(*                                                                         *)
(* Text is modelled as a sequence of characters.  A character is a TLA+    *)
(* string naming it: "BS" backslash, "DQ" double quote, "SQ" single quote, *)
(* "LF", "CR", "TAB", "SP" space, "SEMI" semicolon, single letters, and    *)
(* "U" for a non-ASCII character.  A longer name such as "osascript" or    *)
(* "Error:" stands for that run of ordinary characters kept together.      *)
(***************************************************************************)
EXTENDS Integers, Sequences, FiniteSets, TLC

VARIABLES
    str,          \* escapeForJXA: the argument
    escPc,        \* escapeForJXA: "start" | "done"
    escResult,    \* escapeForJXA: the completion (return or throw)
    pc,           \* executeJXA: position of the call
    script,       \* executeJXA: the script argument
    options,      \* executeJXA: the options argument
    timeoutMs,    \* executeJXA: the local timeoutMs
    command,      \* executeJXA: the command string handed to execSync
    execTimeout,  \* the timeout option handed to execSync
    execCalls,    \* number of execSync invocations made by the call
    cause,        \* what happened to the child process
    outcome,      \* what execSync returned or threw
    result,       \* executeJXA: the completion of the call
    other,        \* executeJXA: the frame of a second call in progress
    code,         \* buildNotesJXA: the argument
    built         \* buildNotesJXA: the completion

escVars  == <<str, escPc, escResult>>
execVars == <<pc, script, options, timeoutMs, command, execTimeout, execCalls,
              cause, outcome, result>>
buildVars == <<code, built>>
vars     == <<str, escPc, escResult, pc, script, options, timeoutMs, command,
              execTimeout, execCalls, cause, outcome, result, other, code, built>>

----------------------------------------------------------------------------
(* Characters *)

BS  == "BS"
DQ  == "DQ"
SQ  == "SQ"
LF  == "LF"
CR  == "CR"
TAB == "TAB"
SP  == "SP"
SEMI == "SEMI"
NonAscii == "U"

(* Bounds *)
MaxStrLen == 4

SeqsUpTo(A, n) == UNION {[1..k -> A] : k \in 0..n}

RECURSIVE Concat(_)
Concat(ss) == IF ss = <<>> THEN <<>> ELSE Head(ss) \o Concat(Tail(ss))

----------------------------------------------------------------------------
(* JavaScript values and completions *)

JSString(cs) == [kind |-> "string", chars |-> cs]
JSNull       == [kind |-> "null", chars |-> <<>>]
JSUndefined  == [kind |-> "undefined", chars |-> <<>>]

\* `!v` is true exactly when ToBoolean(v) is false
ToBoolean(v) == v.kind = "string" /\ v.chars # <<>>

Return(v)  == [type |-> "return", value |-> v]
Throw(e)   == [type |-> "throw", value |-> e]
NoCompletion == [type |-> "none", value |-> JSUndefined]
TypeError  == [kind |-> "TypeError", chars |-> <<>>]

\* String.prototype.replace(/c/g, rep) for a one-character pattern c
RECURSIVE ReplaceAll(_, _, _)
ReplaceAll(s, c, rep) ==
    IF s = <<>> THEN <<>>
    ELSE (IF Head(s) = c THEN rep ELSE <<Head(s)>>) \o ReplaceAll(Tail(s), c, rep)

----------------------------------------------------------------------------
(* escapeForJXA *)

\* variant: the carriage-return replacement left out
EscapeChainNoCR(s) ==
    ReplaceAll(ReplaceAll(ReplaceAll(ReplaceAll(s,
        BS, <<BS, BS>>),
        DQ, <<BS, DQ>>),
        LF, <<BS, "n">>),
        TAB, <<BS, "t">>)

\* variant: the backslash replacement applied last instead of first
EscapeChainBackslashLast(s) ==
    ReplaceAll(ReplaceAll(ReplaceAll(ReplaceAll(ReplaceAll(s,
        DQ, <<BS, DQ>>),
        LF, <<BS, "n">>),
        CR, <<BS, "r">>),
        TAB, <<BS, "t">>),
        BS, <<BS, BS>>)

\* variant: the backslash replacement left out
EscapeChainNoBackslash(s) ==
    ReplaceAll(ReplaceAll(ReplaceAll(ReplaceAll(s,
        DQ, <<BS, DQ>>),
        LF, <<BS, "n">>),
        CR, <<BS, "r">>),
        TAB, <<BS, "t">>)

\* variant: the double-quote replacement left out
EscapeChainNoDQ(s) ==
    ReplaceAll(ReplaceAll(ReplaceAll(ReplaceAll(s,
        BS, <<BS, BS>>),
        LF, <<BS, "n">>),
        CR, <<BS, "r">>),
        TAB, <<BS, "t">>)

\* the five chained replacements, in the order of the source
EscapeChain(s) ==
    ReplaceAll(ReplaceAll(ReplaceAll(ReplaceAll(ReplaceAll(s,
        BS, <<BS, BS>>),
        DQ, <<BS, DQ>>),
        LF, <<BS, "n">>),
        CR, <<BS, "r">>),
        TAB, <<BS, "t">>)

\* variant: the guard compares with the empty string only
escapeForJXAStrictGuard(v) ==
    IF v = JSString(<<>>) THEN Return(JSString(<<>>))
    ELSE IF v.kind = "string" THEN Return(JSString(EscapeChain(v.chars)))
    ELSE Throw(TypeError)

escapeForJXA(v) ==
    IF ~ToBoolean(v) THEN Return(JSString(<<>>))
    ELSE IF v.kind = "string" THEN Return(JSString(EscapeChain(v.chars)))
    ELSE Throw(TypeError)

EscapeAlphabet == {BS, DQ, SQ, LF, CR, TAB, "n", "r", "t", "a", NonAscii}
EscapeInputs ==
    {JSString(s) : s \in SeqsUpTo(EscapeAlphabet, MaxStrLen)} \cup {JSNull, JSUndefined}

EscapeCall ==
    /\ escPc = "start"
    /\ escResult' = escapeForJXA(str)
    /\ escPc' = "done"
    /\ UNCHANGED <<str, execVars, buildVars, other>>

----------------------------------------------------------------------------
(* executeJXA *)

DEFAULT_TIMEOUT_MS == 30000

Whitespace == {SP, TAB, LF, CR}
LineTerminators == {LF, CR}

\* String.prototype.trim
RECURSIVE TrimStart(_)
TrimStart(s) ==
    IF s # <<>> /\ Head(s) \in Whitespace THEN TrimStart(Tail(s)) ELSE s

RECURSIVE TrimEnd(_)
TrimEnd(s) ==
    IF s # <<>> /\ s[Len(s)] \in Whitespace THEN TrimEnd(SubSeq(s, 1, Len(s) - 1)) ELSE s

\* variant: only the end is trimmed
TrimEndOnly(s) == TrimEnd(s)

Trim(s) == TrimEnd(TrimStart(s))

\* options: absent, {} or {timeoutMs: t}
NoOptions       == [present |-> FALSE, hasTimeout |-> FALSE, timeoutMs |-> 0]
EmptyOptions    == [present |-> TRUE, hasTimeout |-> FALSE, timeoutMs |-> 0]
WithTimeout(t)  == [present |-> TRUE, hasTimeout |-> TRUE, timeoutMs |-> t]

\* variant: options.timeoutMs || DEFAULT_TIMEOUT_MS
EffectiveTimeoutOr(o) ==
    IF o.present /\ o.hasTimeout /\ o.timeoutMs # 0 THEN o.timeoutMs ELSE DEFAULT_TIMEOUT_MS

\* options.timeoutMs ?? DEFAULT_TIMEOUT_MS, with options = {} by default
EffectiveTimeout(o) ==
    IF o.present /\ o.hasTimeout THEN o.timeoutMs ELSE DEFAULT_TIMEOUT_MS

\* variant: the guard is !script alone
IsBlankNoTrim(v) == ~ToBoolean(v)

\* !script || !script.trim()
IsBlank(v) == ~ToBoolean(v) \/ Trim(v.chars) = <<>>

\* variant: a single quote is replaced by backslash + quote
ShellEscapeBackslash(s) == ReplaceAll(Trim(s), SQ, <<BS, SQ>>)

\* script.trim().replace(/'/g, "'\\''")
ShellEscape(s) == ReplaceAll(Trim(s), SQ, <<SQ, BS, SQ, SQ>>)

\* `osascript -l JavaScript -e '${escapedScript}'`
BuildCommand(s) ==
    <<"osascript", SP, "-l", SP, "JavaScript", SP, "-e", SP, SQ>> \o ShellEscape(s) \o <<SQ>>

\* what execSync throws: an Error with its message and the killed and signal
\* properties, or a value that is not an Error
ErrorValue(m, k, sg) == [kind |-> "Error", message |-> m, killed |-> k, signal |-> sg]
NonErrorValue(k)     == [kind |-> "other", message |-> <<>>, killed |-> k, signal |-> "undefined"]

isTimeoutError(e) ==
    e.kind = "Error" /\ (e.killed = "true" \/ e.signal = "SIGTERM")

\* variant: Math.floor in place of Math.round
MathFloor(a, b) == a \div b

\* Math.round(a / b) for b > 0: the floor of a/b + 1/2
MathRound(a, b) == (2 * a + b) \div (2 * b)

Words(ws) == [i \in 1..(2 * Len(ws) - 1) |-> IF i % 2 = 1 THEN ws[(i + 1) \div 2] ELSE SP]

EmptyScriptMessage == Words(<<"Cannot", "execute", "empty", "JXA", "script">>)
UnknownErrorMessage == Words(<<"JXA", "execution", "failed", "with", "unknown", "error">>)
TimeoutMessage(ms) ==
    Words(<<"Operation", "timed", "out", "after", ToString(MathRound(ms, 1000)), "seconds">>)

\* error.message.match(/Error: (.+)/): the leftmost place where "Error: " is
\* followed by a character other than a line terminator; group 1 runs from
\* there to the end of that line
\* variant: the pattern /Error: (.*)/, which accepts empty details
MatchAtStar(m, i) ==
    /\ i + 1 <= Len(m)
    /\ m[i] = "Error:"
    /\ m[i + 1] = SP

MatchAt(m, i) ==
    /\ i + 2 <= Len(m)
    /\ m[i] = "Error:"
    /\ m[i + 1] = SP
    /\ m[i + 2] \notin LineTerminators

LineEnd(m, i) ==
    LET stops == {j \in i..Len(m) : m[j] \in LineTerminators}
    IN  IF stops = {} THEN Len(m)
        ELSE (CHOOSE j \in stops : \A k \in stops : j <= k) - 1

\* variant: the rightmost occurrence is taken
RegexMatchLast(m) ==
    LET starts == {i \in 1..Len(m) : MatchAt(m, i)}
    IN  IF starts = {} THEN [matched |-> FALSE, group1 |-> <<>>]
        ELSE LET i == CHOOSE j \in starts : \A k \in starts : j >= k
             IN  [matched |-> TRUE, group1 |-> SubSeq(m, i + 2, LineEnd(m, i + 2))]

RegexMatch(m) ==
    LET starts == {i \in 1..Len(m) : MatchAt(m, i)}
    IN  IF starts = {} THEN [matched |-> FALSE, group1 |-> <<>>]
        ELSE LET i == CHOOSE j \in starts : \A k \in starts : j <= k
             IN  [matched |-> TRUE, group1 |-> SubSeq(m, i + 2, LineEnd(m, i + 2))]

\* variant: the message is inspected before the timeout check
ErrorMessageMessageFirst(e, ms) ==
    IF e.kind = "Error" /\ RegexMatch(e.message).matched THEN RegexMatch(e.message).group1
    ELSE IF isTimeoutError(e) THEN TimeoutMessage(ms)
    ELSE IF e.kind = "Error" THEN e.message
    ELSE UnknownErrorMessage

\* the catch block
ErrorMessage(e, ms) ==
    IF isTimeoutError(e) THEN TimeoutMessage(ms)
    ELSE IF e.kind = "Error"
         THEN LET match == RegexMatch(e.message)
              IN  IF match.matched THEN match.group1 ELSE e.message
    ELSE UnknownErrorMessage

Success(out) == [success |-> TRUE, output |-> out]
Failure(err) == [success |-> FALSE, output |-> <<>>, error |-> err]

(* The process facility (child_process.execSync, replaced by a test double   *)
(* in the tests).  cause records what happened to the child:                *)
(*   "nonzero"   it exited with a non-zero status                           *)
(*   "spawnfail" it could not be started                                    *)
(*   "timeout"   it ran past the timeout and the facility killed it with    *)
(*               the default kill signal, SIGTERM                           *)
(*   "extsignal" something else sent it a signal before the deadline        *)
(*   "double"    a test double threw a value of its own making              *)
Killed  == {"true", "false", "undefined"}
Signals == {"SIGTERM", "SIGKILL", "null"}

Throws(M) ==
         {[cause |-> "nonzero",   error |-> ErrorValue(m, "undefined", "null")] : m \in M}
    \cup {[cause |-> "spawnfail", error |-> ErrorValue(m, "undefined", "null")] : m \in M}
    \cup {[cause |-> "timeout",   error |-> ErrorValue(m, "undefined", "SIGTERM")] : m \in M}
    \cup {[cause |-> "extsignal", error |-> ErrorValue(m, "undefined", sg)] :
              m \in M, sg \in {"SIGTERM", "SIGKILL"}}
    \cup {[cause |-> "double",    error |-> ErrorValue(m, k, sg)] :
              m \in M, k \in Killed, sg \in Signals}
    \cup {[cause |-> "double",    error |-> NonErrorValue(k)] : k \in {"true", "undefined"}}

\* variant: timeoutMs is kept in a place that the calls in progress share
CallShared(S, O) ==
    /\ pc = "Idle"
    /\ \E s \in S, o \in O :
          /\ script' = s
          /\ options' = o
          /\ timeoutMs' = IF other.pc # "Idle" THEN other.timeoutMs ELSE EffectiveTimeout(o)
    /\ pc' = "Validating"
    /\ UNCHANGED <<escVars, buildVars, other, command, execTimeout, execCalls, cause,
                   outcome, result>>

\* line 86-87: the call is entered and timeoutMs is bound
Call(S, O) ==
    /\ pc = "Idle"
    /\ \E s \in S, o \in O :
          /\ script' = s
          /\ options' = o
          /\ timeoutMs' = EffectiveTimeout(o)
    /\ pc' = "Validating"
    /\ UNCHANGED <<escVars, buildVars, other, command, execTimeout, execCalls, cause, outcome, result>>

\* lines 89-95: a blank script is rejected
Reject ==
    /\ pc = "Validating"
    /\ IsBlank(script)
    /\ result' = Return(Failure(EmptyScriptMessage))
    /\ pc' = "Rejected"
    /\ UNCHANGED <<escVars, buildVars, other, script, options, timeoutMs, command, execTimeout,
                   execCalls, cause, outcome>>

\* variant: a probing execSync call precedes the real one
SpawnWithProbe ==
    /\ pc = "Validating"
    /\ ~IsBlank(script)
    /\ command' = BuildCommand(script.chars)
    /\ execTimeout' = timeoutMs
    /\ execCalls' = execCalls + 2
    /\ pc' = "Running"
    /\ UNCHANGED <<escVars, buildVars, other, script, options, timeoutMs, cause, outcome, result>>

\* lines 97-107: the command is built and execSync is invoked
Spawn ==
    /\ pc = "Validating"
    /\ ~IsBlank(script)
    /\ command' = BuildCommand(script.chars)
    /\ execTimeout' = timeoutMs
    /\ execCalls' = execCalls + 1
    /\ pc' = "Running"
    /\ UNCHANGED <<escVars, buildVars, other, script, options, timeoutMs, cause, outcome, result>>

\* lines 103-112: execSync returns the child's standard output
ExecReturns(Outs) ==
    /\ pc = "Running"
    /\ \E o \in Outs :
          /\ outcome' = Return(JSString(o))
          /\ result' = Return(Success(Trim(o)))
    /\ cause' = "exit0"
    /\ pc' = "Succeeded"
    /\ UNCHANGED <<escVars, buildVars, other, script, options, timeoutMs, command, execTimeout, execCalls>>

\* variant: the first failure is retried
ExecThrowsRetry(M) ==
    /\ pc = "Running"
    /\ \E t \in Throws(M) :
          /\ t.cause = "timeout" => execTimeout > 0
          /\ cause' = t.cause
          /\ outcome' = Throw(t.error)
          /\ IF execCalls < 2
             THEN /\ pc' = "Validating"
                  /\ UNCHANGED result
             ELSE /\ result' = Return(Failure(ErrorMessage(t.error, timeoutMs)))
                  /\ pc' = IF isTimeoutError(t.error) THEN "TimedOut" ELSE "Failed"
    /\ UNCHANGED <<escVars, buildVars, other, script, options, timeoutMs, command,
                   execTimeout, execCalls>>

\* lines 113-132: execSync throws and the catch block classifies the failure
ExecThrows(M) ==
    /\ pc = "Running"
    /\ \E t \in Throws(M) :
          /\ t.cause = "timeout" => execTimeout > 0
          /\ cause' = t.cause
          /\ outcome' = Throw(t.error)
          /\ result' = Return(Failure(ErrorMessage(t.error, timeoutMs)))
          /\ pc' = IF isTimeoutError(t.error) THEN "TimedOut" ELSE "Failed"
    /\ UNCHANGED <<escVars, buildVars, other, script, options, timeoutMs, command, execTimeout, execCalls>>

\* the locals of a call, as one record
Frame(p, s, o, ms, cmd, et, n, c, out, r) ==
    [pc |-> p, script |-> s, options |-> o, timeoutMs |-> ms, command |-> cmd,
     execTimeout |-> et, execCalls |-> n, cause |-> c, outcome |-> out, result |-> r]

IdleFrame ==
    Frame("Idle", JSUndefined, NoOptions, 0, <<>>, 0, 0, "none", NoCompletion, NoCompletion)

BuildIdle ==
    /\ code = JSUndefined
    /\ built = NoCompletion

ExecIdle ==
    /\ other = IdleFrame
    /\ pc = "Idle"
    /\ script = JSUndefined
    /\ options = NoOptions
    /\ timeoutMs = 0
    /\ command = <<>>
    /\ execTimeout = 0
    /\ execCalls = 0
    /\ cause = "none"
    /\ outcome = NoCompletion
    /\ result = NoCompletion

EscIdle ==
    /\ str = JSUndefined
    /\ escPc = "idle"
    /\ escResult = NoCompletion

(* Bounds on the inputs *)
MaxScriptLen == 3
MaxOutLen == 3
MaxMsgLen == 3
MaxLongMsgLen == 5

TimeoutValues == {0, 499, 1600, 2500, 5000}
OptionValues == {NoOptions, EmptyOptions} \cup {WithTimeout(t) : t \in TimeoutValues}

ScriptsOver(A) == {JSString(s) : s \in SeqsUpTo(A, MaxScriptLen)} \cup {JSNull, JSUndefined}

\* the general specification: every input varies a little
Scripts  == ScriptsOver({SP, "a"})
Outputs  == SeqsUpTo({SP, LF, "x"}, MaxOutLen)
Messages == SeqsUpTo({"Error:", SP, "x"}, MaxMsgLen)

InitEscape ==
    /\ str \in EscapeInputs
    /\ escPc = "start"
    /\ escResult = NoCompletion
    /\ ExecIdle
    /\ BuildIdle

NextEscape == EscapeCall

SpecEscape == InitEscape /\ [][NextEscape]_vars

Init == EscIdle /\ ExecIdle /\ BuildIdle

Next ==
    \/ Call(Scripts, OptionValues)
    \/ Reject
    \/ Spawn
    \/ ExecReturns(Outputs)
    \/ ExecThrows(Messages)

Spec == Init /\ [][Next]_vars

\* the same call with scripts over the characters the shell treats specially
QuoteScripts  == ScriptsOver({SQ, BS, DQ, SP, LF, SEMI, "a"})
QuoteOutputs  == {<<>>, <<"x">>}
QuoteMessages == {<<"x">>}

NextQuote ==
    \/ Call(QuoteScripts, OptionValues)
    \/ Reject
    \/ Spawn
    \/ ExecReturns(QuoteOutputs)
    \/ ExecThrows(QuoteMessages)

SpecQuote == Init /\ [][NextQuote]_vars

\* the same call with failure messages of several lines
MsgScripts  == {JSString(<<>>), JSString(<<"a">>)}
MsgOptions  == {NoOptions}
MsgOutputs  == {<<>>, <<"x">>}
MsgMessages == SeqsUpTo({"Error:", SP, "x", LF}, MaxLongMsgLen)

NextMsg ==
    \/ Call(MsgScripts, MsgOptions)
    \/ Reject
    \/ Spawn
    \/ ExecReturns(MsgOutputs)
    \/ ExecThrows(MsgMessages)

SpecMsg == Init /\ [][NextMsg]_vars

----------------------------------------------------------------------------
(* buildNotesJXA *)

Indent        == <<SP, SP, SP, SP>>
NotesBinding  == <<"const", SP, "Notes", SP, "=", SP, "Application", "(", DQ, "Notes", DQ, ")", SEMI>>
StdAdditions  == <<"Notes.includeStandardAdditions", SP, "=", SP, "true", SEMI>>

\* ${code}: the text of a string, or the name of null or undefined
TemplateText(v) == IF v.kind = "string" THEN v.chars ELSE <<v.kind>>

\* variant: the fragment is escaped once more before it is inlined
buildNotesJXAEscaped(v) ==
    <<LF>> \o Indent \o NotesBinding \o <<LF>> \o Indent \o StdAdditions
           \o <<LF>> \o Indent \o EscapeChain(TemplateText(v)) \o <<LF, SP, SP>>

\* the template literal of lines 142-146
buildNotesJXA(v) ==
    <<LF>> \o Indent \o NotesBinding \o <<LF>> \o Indent \o StdAdditions
           \o <<LF>> \o Indent \o TemplateText(v) \o <<LF, SP, SP>>

BuildCall ==
    /\ code # JSUndefined
    /\ built = NoCompletion
    /\ built' = Return(JSString(buildNotesJXA(code)))
    /\ UNCHANGED <<escVars, execVars, other, code>>

MaxCodeLen == 3
BuildInputs == {JSString(s) : s \in SeqsUpTo({DQ, BS, SP, LF, SEMI, "a"}, MaxCodeLen)}

InitBuild ==
    /\ code \in BuildInputs
    /\ built = NoCompletion
    /\ EscIdle
    /\ ExecIdle

NextBuild == BuildCall

SpecBuild == InitBuild /\ [][NextBuild]_vars

\* a text on its way into a script: escaped, put between double quotes in a
\* fragment by the caller, wrapped, and executed
Fragment(e) == <<"f", "(", DQ>> \o e \o <<DQ, ")", SEMI, SP, "g", "(", ")">>

Compose ==
    /\ escPc = "done"
    /\ escResult.type = "return"
    /\ code = JSUndefined
    /\ code' = JSString(Fragment(escResult.value.chars))
    /\ UNCHANGED <<escVars, execVars, other, built>>

MaxTextLen == 3
EmbedTexts == {JSString(s) : s \in SeqsUpTo({SQ, DQ, BS, LF, CR, TAB, "n"}, MaxTextLen)}

InitEmbed ==
    /\ str \in EmbedTexts
    /\ escPc = "start"
    /\ escResult = NoCompletion
    /\ ExecIdle
    /\ BuildIdle

\* the wrapped script always holds the two statements of the template, so the
\* guard of lines 89-95 passes (the guard of Spawn) and Reject has no step here
NextEmbed ==
    \/ EscapeCall
    \/ Compose
    \/ BuildCall
    \/ (built.type = "return" /\ Call({built.value}, MsgOptions))
    \/ Spawn
    \/ ExecReturns(QuoteOutputs)
    \/ ExecThrows(QuoteMessages)

SpecEmbed == InitEmbed /\ [][NextEmbed]_vars

\* two calls in progress at once (the host runs them side by side): each has
\* its own locals and its own child process; Switch lets the other call take
\* the next step
CurrentFrame ==
    Frame(pc, script, options, timeoutMs, command, execTimeout, execCalls, cause,
          outcome, result)

Switch ==
    /\ other # CurrentFrame
    /\ other' = CurrentFrame
    /\ pc' = other.pc
    /\ script' = other.script
    /\ options' = other.options
    /\ timeoutMs' = other.timeoutMs
    /\ command' = other.command
    /\ execTimeout' = other.execTimeout
    /\ execCalls' = other.execCalls
    /\ cause' = other.cause
    /\ outcome' = other.outcome
    /\ result' = other.result
    /\ UNCHANGED <<escVars, buildVars>>

TwoScripts  == {JSString(<<>>), JSString(<<"a">>)}
TwoOptions  == {NoOptions, WithTimeout(5000)}
TwoOutputs  == {<<"x", LF>>}
TwoMessages == {<<"Error:", SP, "x">>}

NextTwo ==
    \/ Call(TwoScripts, TwoOptions)
    \/ Reject
    \/ Spawn
    \/ ExecReturns(TwoOutputs)
    \/ ExecThrows(TwoMessages)
    \/ Switch

SpecTwo == Init /\ [][NextTwo]_vars

\* the same call under the scheduling the code has: it runs on without
\* pausing, and execSync comes back (the child exits, or is killed at the
\* deadline) whenever the timeout it was given is positive; with timeout 0
\* execSync sets no deadline and may block for ever
Completes == ExecReturns(QuoteOutputs) \/ ExecThrows(QuoteMessages)

NextLive ==
    \/ Call(Scripts, OptionValues)
    \/ Reject
    \/ Spawn
    \/ ExecReturns(QuoteOutputs)
    \/ ExecThrows(QuoteMessages)

SpecLive ==
    /\ Init
    /\ [][NextLive]_vars
    /\ WF_vars(Reject)
    /\ WF_vars(Spawn)
    /\ WF_vars(execTimeout > 0 /\ Completes)

----------------------------------------------------------------------------
(* The grammar of a JavaScript double-quoted string literal (ECMAScript     *)
(* 12.9.4), read left to right over the text between the two quotes.       *)
(* ok is FALSE when the text is not the body of one literal: an unescaped  *)
(* quote closes it early, a raw line terminator or a trailing backslash    *)
(* leaves it unterminated.                                                 *)

Unescape(d) ==
    CASE d = "n" -> LF
      [] d = "r" -> CR
      [] d = "t" -> TAB
      [] OTHER   -> d

RECURSIVE DecodeFrom(_, _, _)
DecodeFrom(b, i, acc) ==
    IF i > Len(b) THEN [ok |-> TRUE, value |-> acc]
    ELSE IF b[i] = DQ \/ b[i] = LF \/ b[i] = CR THEN [ok |-> FALSE, value |-> acc]
    ELSE IF b[i] # BS THEN DecodeFrom(b, i + 1, Append(acc, b[i]))
    ELSE IF i = Len(b) THEN [ok |-> FALSE, value |-> acc]
    ELSE IF b[i + 1] = LF THEN DecodeFrom(b, i + 2, acc)
    ELSE IF b[i + 1] = CR
         THEN DecodeFrom(b, IF i + 2 <= Len(b) /\ b[i + 2] = LF THEN i + 3 ELSE i + 2, acc)
    ELSE DecodeFrom(b, i + 2, Append(acc, Unescape(b[i + 1])))

JSDecodeLiteral(b) == DecodeFrom(b, 1, <<>>)

\* one left-to-right pass, character by character
EscapeChar(c) ==
    CASE c = BS  -> <<BS, BS>>
      [] c = DQ  -> <<BS, DQ>>
      [] c = LF  -> <<BS, "n">>
      [] c = CR  -> <<BS, "r">>
      [] c = TAB -> <<BS, "t">>
      [] OTHER   -> <<c>>

SinglePassEscape(s) == Concat([i \in 1..Len(s) |-> EscapeChar(s[i])])

----------------------------------------------------------------------------
(* Properties of escapeForJXA (checked under SpecEscape) *)

\* C1: round trip. For every text s, reading "<escapeForJXA(s)>" by the
\* JavaScript double-quoted string-literal grammar yields exactly s.
C1_RoundTrip ==
    (escPc = "done" /\ str.kind = "string") =>
        /\ escResult.type = "return"
        /\ JSDecodeLiteral(escResult.value.chars) = [ok |-> TRUE, value |-> str.chars]

C1_Witness ==
    /\ escPc = "done"
    /\ str = JSString(<<BS, "n", LF, DQ>>)
    /\ escResult.value.chars = <<BS, BS, "n", BS, "n", BS, DQ>>

\* C2: the five sequential replacements give the same text as one
\* left-to-right pass that maps each character on its own; quotes other than
\* the double quote and non-ASCII characters are copied.
C2_SinglePass ==
    (escPc = "done" /\ str.kind = "string") =>
        escResult = Return(JSString(SinglePassEscape(str.chars)))

C2_Witness ==
    /\ escPc = "done"
    /\ str = JSString(<<LF, BS, SQ, NonAscii>>)
    /\ escResult.value.chars = <<BS, "n", BS, BS, SQ, NonAscii>>

\* C3: the empty string, null and undefined all give the empty string, and
\* nothing is thrown.
C3_EmptyInputs ==
    (escPc = "done" /\ str \in {JSString(<<>>), JSNull, JSUndefined}) =>
        escResult = Return(JSString(<<>>))

C3_Witness ==
    /\ escPc = "done"
    /\ str = JSNull
    /\ escResult = Return(JSString(<<>>))

----------------------------------------------------------------------------
(* Word splitting of a command line by the POSIX shell (Shell Command       *)
(* Language 2.2 Quoting, 2.3 Token Recognition), for the characters of the *)
(* model.  Inside single quotes every character is literal; outside them   *)
(* blanks separate words, a newline or a semicolon ends the command (ops   *)
(* counts them), a backslash quotes the next character and a double quote  *)
(* opens a double-quoted part.  ok is FALSE when a quote is left open or   *)
(* the line ends in a lone backslash.                                      *)

ShStart == [mode |-> "plain", cur |-> <<>>, inWord |-> FALSE, words |-> <<>>, ops |-> 0]

\* the state of the shell's reading after one more character ch
ShStep(st, ch) ==
    LET endWord == IF st.inWord THEN Append(st.words, st.cur) ELSE st.words
        take(m, x) == [st EXCEPT !.mode = m, !.cur = st.cur \o x, !.inWord = TRUE]
    IN
    CASE st.mode = "single" ->
            IF ch = SQ THEN take("plain", <<>>) ELSE take("single", <<ch>>)
      [] st.mode = "double" ->
            IF ch = DQ THEN take("plain", <<>>)
            ELSE IF ch = BS THEN take("doubleEsc", <<>>)
            ELSE take("double", <<ch>>)
      [] st.mode = "doubleEsc" ->
            IF ch \in {DQ, BS} THEN take("double", <<ch>>)
            ELSE IF ch = LF THEN take("double", <<>>)
            ELSE take("double", <<BS, ch>>)
      [] st.mode = "plainEsc" ->
            IF ch = LF THEN [st EXCEPT !.mode = "plain"] ELSE take("plain", <<ch>>)
      [] OTHER ->
            IF ch \in {SP, TAB}
            THEN [st EXCEPT !.cur = <<>>, !.inWord = FALSE, !.words = endWord]
            ELSE IF ch \in {LF, SEMI}
            THEN [st EXCEPT !.cur = <<>>, !.inWord = FALSE, !.words = endWord,
                            !.ops = st.ops + 1]
            ELSE IF ch = SQ THEN take("single", <<>>)
            ELSE IF ch = DQ THEN take("double", <<>>)
            ELSE IF ch = BS THEN [st EXCEPT !.mode = "plainEsc"]
            ELSE take("plain", <<ch>>)

\* the state after the characters lo..hi of c, read in order; the test on
\* the state of the first half has it computed before the second half is read
RECURSIVE ShRun(_, _, _, _)
ShRun(c, st, lo, hi) ==
    IF lo > hi THEN st
    ELSE IF lo = hi THEN ShStep(st, c[lo])
    ELSE LET mid  == (lo + hi) \div 2
             left == ShRun(c, st, lo, mid)
         IN  IF left.ops >= 0 THEN ShRun(c, left, mid + 1, hi) ELSE left

ShParse(c) ==
    LET st == ShRun(c, ShStart, 1, Len(c))
    IN  [ok    |-> st.mode = "plain",
         words |-> IF st.inWord THEN Append(st.words, st.cur) ELSE st.words,
         ops   |-> st.ops]

----------------------------------------------------------------------------
(* Properties of executeJXA *)

AllWhitespace(s) == \A i \in 1..Len(s) : s[i] \in {SP, TAB, LF, CR}
BlankScript(v)   == v.kind # "string" \/ AllWhitespace(v.chars)
Mentions(msg, w) == \E i \in 1..Len(msg) : msg[i] = w
Started          == pc # "Idle"
Finished         == pc \in {"Rejected", "Succeeded", "TimedOut", "Failed"}

\* C4 (SpecQuote): a script that is empty or all whitespace is answered with
\* a failure whose output is empty and whose error mentions "empty", and
\* execSync is at no point of the call invoked, whatever the options.
C4_BlankRejected ==
    (Started /\ BlankScript(script)) =>
        /\ execCalls = 0
        /\ pc \in {"Validating", "Rejected"}
        /\ pc = "Rejected" =>
              /\ result.type = "return"
              /\ result.value.success = FALSE
              /\ result.value.output = <<>>
              /\ Mentions(result.value.error, "empty")

C4_Witness ==
    /\ pc = "Rejected"
    /\ script = JSString(<<SP, LF, SP>>)
    /\ options = WithTimeout(5000)
    /\ execCalls = 0
    /\ result.value.success = FALSE

\* C5 (SpecQuote): the command handed to execSync, split into words by the
\* POSIX shell, is exactly the five words osascript, -l, JavaScript, -e and
\* the trimmed script; no unquoted operator ends the command early.
C5_ShellQuoting ==
    execCalls > 0 =>
        ShParse(command) =
            [ok |-> TRUE,
             words |-> << <<"osascript">>, <<"-l">>, <<"JavaScript">>, <<"-e">>,
                          Trim(script.chars) >>,
             ops |-> 0]

C5_Witness ==
    /\ pc = "Running"
    /\ script = JSString(<<SQ, SQ, BS>>)
    /\ command = <<"osascript", SP, "-l", SP, "JavaScript", SP, "-e", SP,
                   SQ, SQ, BS, SQ, SQ, SQ, BS, SQ, SQ, BS, SQ>>

\* C6 (Spec): when execSync returns the text o, the call returns success
\* true, no error field, and an output that is o without its leading and
\* trailing whitespace (the empty text when o is empty or all whitespace).
C6_SuccessTrimmed ==
    (pc = "Succeeded" /\ outcome.type = "return") =>
        LET o == outcome.value.chars
            r == result.value
        IN  /\ result.type = "return"
            /\ DOMAIN r = {"success", "output"}
            /\ r.success = TRUE
            /\ \E i \in 0..Len(o), j \in 0..Len(o) :
                  /\ i <= j
                  /\ r.output = SubSeq(o, i + 1, j)
                  /\ AllWhitespace(SubSeq(o, 1, i))
                  /\ AllWhitespace(SubSeq(o, j + 1, Len(o)))
            /\ r.output # <<>> =>
                  /\ r.output[1] \notin {SP, TAB, LF, CR}
                  /\ r.output[Len(r.output)] \notin {SP, TAB, LF, CR}

C6_Witness ==
    /\ pc = "Succeeded"
    /\ outcome = Return(JSString(<<SP, "x", LF>>))
    /\ result = Return([success |-> TRUE, output |-> <<"x">>])

C6_WitnessBlankOutput ==
    /\ pc = "Succeeded"
    /\ outcome = Return(JSString(<<LF, SP>>))
    /\ result = Return([success |-> TRUE, output |-> <<>>])

\* the timeout in force: the option value, or 30000 when it is absent
InForce == IF options.present /\ options.hasTimeout THEN options.timeoutMs ELSE 30000

\* C7 (Spec): when execSync throws an Error whose killed flag is true or
\* whose signal is SIGTERM, the call fails with "Operation timed out after N
\* seconds", N being the whole number nearest to the timeout in force
\* divided by 1000; for 5000 the message names 5 seconds.
C7_TimeoutMessage ==
    (Finished /\ outcome.type = "throw" /\ outcome.value.kind = "Error"
              /\ (outcome.value.killed = "true" \/ outcome.value.signal = "SIGTERM")) =>
        /\ result.type = "return"
        /\ result.value.success = FALSE
        /\ \E N \in 0..31 :
              /\ 2 * (InForce - 1000 * N) <= 1000
              /\ 2 * (1000 * N - InForce) <= 1000
              /\ result.value.error =
                    <<"Operation", SP, "timed", SP, "out", SP, "after", SP,
                      ToString(N), SP, "seconds">>
        /\ InForce = 5000 => result.value.error[9] = "5"

C7_Witness ==
    /\ pc = "TimedOut"
    /\ options = WithTimeout(5000)
    /\ outcome.value.killed = "true"
    /\ outcome.value.signal = "null"
    /\ Mentions(result.value.error, "5")

C7_WitnessDefault ==
    /\ pc = "TimedOut"
    /\ options = NoOptions
    /\ outcome.value.signal = "SIGTERM"
    /\ Mentions(result.value.error, "30")

\* C8 (Spec): the call reports a timeout if and only if the child ran past
\* timeoutMs and was killed for that reason; a child that failed for another
\* cause is never reported as timed out.
C8_TimeoutIffDeadline ==
    (Finished /\ cause \in {"nonzero", "spawnfail", "timeout", "extsignal"}) =>
        (Mentions(result.value.error, "timed") <=> cause = "timeout")

\* a message of the form 'Error: <details>': the prefix, then at least one
\* character
HasErrorForm(m) == Len(m) >= 3 /\ m[1] = "Error:" /\ m[2] = SP
Details(m)      == SubSeq(m, 3, Len(m))
NonTimeoutError ==
    /\ Finished
    /\ outcome.type = "throw"
    /\ outcome.value.kind = "Error"
    /\ outcome.value.killed # "true"
    /\ outcome.value.signal # "SIGTERM"

\* C9 as stated (SpecMsg): for a failure that is no timeout and whose message
\* is 'Error: <details>', the error is <details> whole, also when the details
\* span several lines.
C9_WholeDetails ==
    (NonTimeoutError /\ HasErrorForm(outcome.value.message)) =>
        result.value.error = Details(outcome.value.message)

RECURSIVE FirstLine(_)
FirstLine(s) ==
    IF s = <<>> \/ Head(s) \in {LF, CR} THEN <<>> ELSE <<Head(s)>> \o FirstLine(Tail(s))

\* C9 as amended (SpecMsg): for a failure that is no timeout and whose
\* message is 'Error: <details>' with details that do not start with a line
\* terminator, the error is the first line of the details: all of them when
\* they are one line, also when they contain 'Error: ' again.
C9_FirstLineOfDetails ==
    (NonTimeoutError /\ HasErrorForm(outcome.value.message)
                     /\ outcome.value.message[3] \notin {LF, CR}) =>
        /\ result.value.success = FALSE
        /\ result.value.error = FirstLine(Details(outcome.value.message))

C9_Witness ==
    /\ pc = "Failed"
    /\ outcome.value.message = <<"Error:", SP, "x", LF, "x">>
    /\ result.value.error = <<"x">>

C9_WitnessNested ==
    /\ pc = "Failed"
    /\ outcome.value.message = <<"Error:", SP, "Error:", SP, "x">>
    /\ result.value.error = <<"Error:", SP, "x">>

\* C10 as stated (SpecMsg): for a failure that is no timeout and whose
\* message does not begin with 'Error: ' and a further character, the error
\* is the raw message.
C10_RawUnlessLeadingPrefix ==
    (NonTimeoutError /\ ~HasErrorForm(outcome.value.message)) =>
        result.value.error = outcome.value.message

\* 'Error: ' followed by a character that is no line terminator, at place i
OccursAt(m, i) ==
    i + 2 <= Len(m) /\ m[i] = "Error:" /\ m[i + 1] = SP /\ m[i + 2] \notin {LF, CR}

\* C10 as amended (SpecMsg): for a failure that is no timeout and whose
\* message nowhere holds 'Error: ' followed by a character other than a line
\* terminator, the error is the raw message, nothing removed.
C10_RawWhenNoOccurrence ==
    (NonTimeoutError /\ \A i \in 1..Len(outcome.value.message) :
                            ~OccursAt(outcome.value.message, i)) =>
        /\ result.value.success = FALSE
        /\ result.value.error = outcome.value.message

C10_Witness ==
    /\ pc = "Failed"
    /\ outcome.value.message = <<"x", LF, "Error:", SP, LF>>
    /\ result.value.error = <<"x", LF, "Error:", SP, LF>>

\* the generic text, word by word
GenericText ==
    <<"JXA", SP, "execution", SP, "failed", SP, "with", SP, "unknown", SP, "error">>

Thrown == Finished /\ outcome.type = "throw"
FlaggedTimeout ==
    outcome.value.kind = "Error"
        /\ (outcome.value.killed = "true" \/ outcome.value.signal = "SIGTERM")

\* C11 (Spec): a failure that carries no message (an Error whose message is
\* empty, or a thrown value that is no Error) and is no timeout is answered
\* with the generic text "JXA execution failed with unknown error".
C11_NoMessageGeneric ==
    (Thrown /\ ~FlaggedTimeout
            /\ (outcome.value.kind # "Error" \/ outcome.value.message = <<>>)) =>
        /\ result.value.success = FALSE
        /\ result.value.error = GenericText

\* C12 (Spec): every finished call has returned a result of one of two
\* shapes: success true without an error field, or success false with an
\* empty output and an error that is not empty.
C12_ResultShape ==
    Finished =>
        /\ result.type = "return"
        /\ \/ /\ result.value.success = TRUE
              /\ DOMAIN result.value = {"success", "output"}
           \/ /\ result.value.success = FALSE
              /\ DOMAIN result.value = {"success", "output", "error"}
              /\ result.value.output = <<>>
              /\ result.value.error # <<>>

\* C13 (Spec): a call with a script that is not blank has invoked execSync
\* exactly once from the moment it runs, also after a failure or a timeout; a
\* call with a blank script never invokes it.
C13_OneInvocation ==
    /\ pc \in {"Idle", "Validating", "Rejected"} => execCalls = 0
    /\ pc \in {"Running", "Succeeded", "TimedOut", "Failed"} =>
          execCalls = 1 /\ ~BlankScript(script)
    /\ pc = "Rejected" => BlankScript(script)

C13_Witness ==
    /\ pc = "TimedOut"
    /\ cause = "timeout"
    /\ execCalls = 1

C13_WitnessFailed ==
    /\ pc = "Failed"
    /\ cause = "nonzero"
    /\ execCalls = 1

\* the option as supplied
Supplied == options.present /\ options.hasTimeout
NearestSeconds(ms, N) == 2 * (ms - 1000 * N) <= 1000 /\ 2 * (1000 * N - ms) <= 1000
RestatesTimeout(ms) ==
    \E N \in 0..31 :
        /\ NearestSeconds(ms, N)
        /\ result.value.error =
              <<"Operation", SP, "timed", SP, "out", SP, "after", SP, ToString(N), SP, "seconds">>

\* C16 as stated (Spec): the timeout handed to execSync is positive in every
\* call; it is the option when supplied and 30000 otherwise, and it is the
\* value the timeout message restates.
C16_PositiveTimeout ==
    execCalls > 0 =>
        /\ execTimeout > 0
        /\ execTimeout = (IF Supplied THEN options.timeoutMs ELSE 30000)
        /\ pc = "TimedOut" => RestatesTimeout(execTimeout)

\* C16 as amended (Spec): the timeout handed to execSync is the option when
\* supplied and 30000 otherwise, and it is the value the timeout message
\* restates; it is positive exactly when the option is absent or itself
\* positive, a supplied 0 being handed on as 0.
C16_TimeoutAsSupplied ==
    execCalls > 0 =>
        /\ execTimeout = (IF Supplied THEN options.timeoutMs ELSE 30000)
        /\ execTimeout > 0 <=> (~Supplied \/ options.timeoutMs > 0)
        /\ pc = "TimedOut" => RestatesTimeout(execTimeout)

C16_Witness ==
    /\ pc = "TimedOut"
    /\ options = WithTimeout(0)
    /\ execTimeout = 0
    /\ Mentions(result.value.error, "0")

C16_WitnessDefault ==
    /\ pc = "Running"
    /\ options = EmptyOptions
    /\ execTimeout = 30000

RECURSIVE RunBefore(_, _)
\* the number of consecutive backslashes that end just before place i
RunBefore(s, i) == IF i > 1 /\ s[i - 1] = BS THEN 1 + RunBefore(s, i - 1) ELSE 0

\* C19 (SpecEscape): the output holds no raw LF, CR or TAB; every double
\* quote in it follows an odd number of consecutive backslashes; and it does
\* not end in an odd run of backslashes.
C19_LiteralContainment ==
    escPc = "done" =>
        LET out == escResult.value.chars
        IN  /\ escResult.type = "return"
            /\ \A i \in 1..Len(out) :
                  /\ out[i] \notin {LF, CR, TAB}
                  /\ out[i] = DQ => RunBefore(out, i) % 2 = 1
            /\ RunBefore(out, Len(out) + 1) % 2 = 0

C19_Witness ==
    /\ escPc = "done"
    /\ str = JSString(<<BS, DQ, TAB, BS>>)
    /\ escResult.value.chars = <<BS, BS, BS, DQ, BS, "t", BS, BS>>

\* C20 (Spec): the timeout check comes before any look at the message. An
\* Error flagged killed or SIGTERM whose message is 'Error: <details>' is
\* answered with the timed-out message and not with the details; a thrown
\* value that is no Error is answered with the generic text also when it
\* carries a killed flag.
C20_TimeoutFirst ==
    /\ (Thrown /\ FlaggedTimeout /\ HasErrorForm(outcome.value.message)) =>
          /\ pc = "TimedOut"
          /\ RestatesTimeout(timeoutMs)
          /\ result.value.error # Details(outcome.value.message)
    /\ (Thrown /\ outcome.value.kind # "Error") =>
          /\ pc = "Failed"
          /\ result.value.error = GenericText

C20_Witness ==
    /\ pc = "TimedOut"
    /\ outcome.value.killed = "true"
    /\ outcome.value.message = <<"Error:", SP, "x">>
    /\ Mentions(result.value.error, "timed")

C20_WitnessNonError ==
    /\ pc = "Failed"
    /\ outcome.value.kind = "other"
    /\ outcome.value.killed = "true"
    /\ result.value.error = GenericText

AllowedMoves ==
    {<<"Idle", "Validating">>, <<"Validating", "Rejected">>, <<"Validating", "Running">>,
     <<"Running", "Succeeded">>, <<"Running", "TimedOut">>, <<"Running", "Failed">>}

LegalMove == <<pc, pc'>> \in AllowedMoves
StaysFinished == Finished => (pc' = pc /\ result' = result)

\* C14 (SpecLive): a call moves only along Idle -> Validating -> Rejected or
\* Idle -> Validating -> Running -> Succeeded, TimedOut or Failed; a call
\* whose timeoutMs is positive reaches one of the four outcomes; and once an
\* outcome is reached the call stays in it.
C14_StateMachine ==
    /\ [][LegalMove]_vars
    /\ (pc = "Validating" /\ timeoutMs > 0) ~> Finished
    /\ [][StaysFinished]_vars

C14_Witness ==
    /\ pc = "TimedOut"
    /\ cause = "timeout"
    /\ timeoutMs = 5000
    /\ result.value.success = FALSE

\* what a call gives when it is the only one: a function of its own script,
\* its own options and the outcome of its own child
Isolated(s, o, out) ==
    IF BlankScript(s) THEN Return(Failure(EmptyScriptMessage))
    ELSE IF out.type = "return" THEN Return(Success(Trim(out.value.chars)))
    ELSE Return(Failure(ErrorMessage(out.value,
                    IF o.present /\ o.hasTimeout THEN o.timeoutMs ELSE 30000)))

Outcomes == {"Rejected", "Succeeded", "TimedOut", "Failed"}

\* C15 (SpecTwo): with two calls in progress, in any order of their steps,
\* the result of each is the one it gives in isolation: it depends on its own
\* script, options and child only, whatever the other call did before or
\* meanwhile.
C15_Independent ==
    /\ pc \in Outcomes => result = Isolated(script, options, outcome)
    /\ other.pc \in Outcomes =>
          other.result = Isolated(other.script, other.options, other.outcome)

C15_Witness ==
    /\ other.pc = "TimedOut"
    /\ other.options = WithTimeout(5000)
    /\ pc = "TimedOut"
    /\ options = NoOptions
    /\ Mentions(result.value.error, "30")
    /\ Mentions(other.result.value.error, "5")

C15_WitnessInterleaved ==
    /\ other.pc = "Running"
    /\ pc = "Succeeded"
    /\ result = Return([success |-> TRUE, output |-> <<"x">>])

----------------------------------------------------------------------------
(* Properties of buildNotesJXA and of the whole path of a text *)

OccursAt_(s, w, i) == i >= 1 /\ i + Len(w) - 1 <= Len(s) /\ SubSeq(s, i, i + Len(w) - 1) = w

\* C17 (SpecBuild): the script holds, in this order, the binding of
\* Application("Notes") to Notes, the statement that sets
\* includeStandardAdditions to true, and the fragment as one unmodified run of
\* characters, followed by whitespace only.
C17_WrapsFragment ==
    built.type = "return" =>
        LET s == built.value.chars
            b == <<"const", SP, "Notes", SP, "=", SP, "Application", "(", DQ, "Notes", DQ, ")">>
            a == <<"Notes.includeStandardAdditions", SP, "=", SP, "true">>
            c == code.chars
        IN  \E i \in 1..Len(s) :
                /\ OccursAt_(s, b, i)
                /\ \E j \in (i + Len(b))..Len(s) :
                      /\ OccursAt_(s, a, j)
                      /\ \E k \in (j + Len(a))..Len(s) :
                            /\ OccursAt_(s, c, k)
                            /\ AllWhitespace(SubSeq(s, k + Len(c), Len(s)))

C17_Witness ==
    /\ built.type = "return"
    /\ code = JSString(<<"a", DQ, BS>>)
    /\ SubSeq(built.value.chars, Len(built.value.chars) - 5, Len(built.value.chars))
           = <<"a", DQ, BS, LF, SP, SP>>

(* The strings and the code of a script, as the JavaScript lexer divides    *)
(* them: strings holds the value of each string literal in turn, code the  *)
(* characters outside the literals with "STR" where a literal stood.  ok is *)
(* FALSE when a literal is left open.                                      *)
JSStart == [mode |-> "plain", quote |-> DQ, acc |-> <<>>, strings |-> <<>>,
            code |-> <<>>, ok |-> TRUE]

\* the state of the lexer after one more character ch
JSStep(st, ch) ==
    LET inString ==
            IF ch = st.quote
            THEN [st EXCEPT !.mode = "plain", !.acc = <<>>,
                            !.strings = Append(st.strings, st.acc),
                            !.code = Append(st.code, "STR")]
            ELSE IF ch \in {LF, CR} THEN [st EXCEPT !.ok = FALSE]
            ELSE IF ch = BS THEN [st EXCEPT !.mode = "esc"]
            ELSE [st EXCEPT !.mode = "string", !.acc = Append(st.acc, ch)]
    IN
    CASE ~st.ok -> st
      [] st.ok /\ st.mode = "plain" ->
            IF ch \in {DQ, SQ}
            THEN [st EXCEPT !.mode = "string", !.quote = ch, !.acc = <<>>]
            ELSE [st EXCEPT !.code = Append(st.code, ch)]
      [] st.ok /\ st.mode = "string" -> inString
      [] st.ok /\ st.mode = "esc" ->
            IF ch = LF THEN [st EXCEPT !.mode = "string"]
            ELSE IF ch = CR THEN [st EXCEPT !.mode = "escCR"]
            ELSE [st EXCEPT !.mode = "string", !.acc = Append(st.acc, Unescape(ch))]
      [] st.ok /\ st.mode = "escCR" ->
            IF ch = LF THEN [st EXCEPT !.mode = "string"] ELSE inString

\* the state after the characters lo..hi of w, read in order; the lexer
\* stops at the first character it cannot accept
RECURSIVE JSRun(_, _, _, _)
JSRun(w, st, lo, hi) ==
    IF lo > hi THEN st
    ELSE IF lo = hi THEN JSStep(st, w[lo])
    ELSE LET mid  == (lo + hi) \div 2
             left == JSRun(w, st, lo, mid)
         IN  IF left.ok THEN JSRun(w, left, mid + 1, hi) ELSE left

JSScan(w) ==
    LET st == JSRun(w, JSStart, 1, Len(w))
    IN  [ok      |-> st.ok /\ st.mode \in {"plain"},
         strings |-> st.strings,
         code    |-> st.code]

\* the code of the wrapped fragment f("...");  g() with its literals taken out
ExpectedCode ==
    <<"const", SP, "Notes", SP, "=", SP, "Application", "(", "STR", ")", SEMI,
      LF, SP, SP, SP, SP,
      "Notes.includeStandardAdditions", SP, "=", SP, "true", SEMI,
      LF, SP, SP, SP, SP,
      "f", "(", "STR", ")", SEMI, SP, "g", "(", ")">>

\* C18 (SpecEmbed): a text that is escaped, put between double quotes in a
\* fragment, wrapped and executed comes back exactly when the command is read
\* by the shell and the script by the JavaScript lexer; the literal ends at
\* its own closing quote, and the code around it is that of the fragment.
C18_EndToEnd ==
    execCalls > 0 =>
        LET sh == ShParse(command)
        IN  /\ sh.ok
            /\ sh.ops = 0
            /\ Len(sh.words) = 5
            /\ LET js == JSScan(sh.words[5])
               IN  /\ js.ok
                   /\ js.strings = << <<"Notes">>, str.chars >>
                   /\ js.code = ExpectedCode

C18_Witness ==
    /\ pc = "Running"
    /\ str = JSString(<<SQ, DQ, BS>>)
    /\ code = JSString(<<"f", "(", DQ, SQ, BS, DQ, BS, BS, DQ, ")", SEMI, SP, "g", "(", ")">>)
    /\ JSScan(ShParse(command).words[5]).strings[2] = <<SQ, DQ, BS>>

====
